---- MODULE Spec2Model ----
(***************************************************************************)
(* Task-lifecycle service: the axum handlers create_task, task_complete    *)
(* (src/src/api/tasks.rs) and create_user (src/src/api/users.rs) over a    *)
(* Firestore document store and a Pub/Sub bus.                             *)
(*                                                                         *)
(* Every handler is a sequence of awaits on the store or the bus; the code *)
(* between two awaits runs without suspension and touches no state shared  *)
(* between requests.  One action models one await together with the        *)
(* synchronous code that follows it up to the next await or the return.    *)
(* Requests live in numbered slots; a finished request keeps its slot as   *)
(* the record of what it called and what it answered.                      *)
(***************************************************************************)
EXTENDS Integers, Sequences, FiniteSets, TLC

VARIABLES
    users,   \* the ids of the documents of collection "users"
    tasks,   \* the documents of the "tasks" collections, by parent path and id
    bus,     \* the messages the bus accepted, in order
    now,     \* chrono::Utc::now().timestamp()
    req,     \* the requests, by slot
    origin   \* each task document as it was inserted (history)

vars == <<users, tasks, bus, now, req, origin>>

(* ------------------------------ bounds --------------------------------- *)

\* number of requests of one execution (running or finished)
MaxReqs == 2
\* the clock (seconds) runs over 0..MaxTime
MaxTime == 1

Slots == 1..MaxReqs

(* ------------------------------ inputs --------------------------------- *)

UserIds == {"u1", "u2"}
TaskIds == {"t1"}
ObjectPaths == {"gs://x"}

None == <<>>
Some(x) == <<x>>

\* CreateTaskCommand.task_data: Option<TaskData>
TaskDataInputs == {None, Some("d1")}
\* TaskData::default()
DefaultTaskData == "d0"

\* models::TaskStatus, the known status enum
KnownStatus == {"Queued", "Running", "Completed", "Failed"}
\* the (status, result) a TaskCompletedEvent may carry
Completions == {<<"Completed", "r1">>, <<"Running", "r2">>, <<"BOGUS", "r1">>}

\* TaskStatus::try_from(status): Ok for a member of the enum, Err otherwise
TaskStatusTryFrom(s) == s \in KnownStatus

(* ------------------------------ the store ------------------------------ *)

\* firestore_client.parent_path("users", user_id)
ParentPath(u) == <<"users", u>>

\* the place of document id of collection "tasks" under a parent path
DocKey(parent, id) == <<parent, id>>

Keys == {DocKey(ParentPath(u), t) : u \in UserIds, t \in TaskIds}

\* Task::default()
DefaultTask ==
    [task_id |-> "", data |-> None, object_path |-> "", created_by |-> "",
     status |-> "", result |-> None, duration_seconds |-> 0,
     created_at |-> None, updated_at |-> None, last_publish_time |-> None]

\* paths!(Task::{status, result, duration_seconds, updated_at, last_publish_time})
UpdateMask == {"status", "result", "duration_seconds", "updated_at", "last_publish_time"}

\* The document old with the fields of mask taken from obj.
ApplyMask(old, mask, obj) ==
    [f \in DOMAIN old |-> IF f \in mask THEN obj[f] ELSE old[f]]

\* fluent().update().fields(mask).in_col("tasks").document_id(id).parent(p).object(obj):
\* a masked write with no precondition on the document's existence, so it
\* writes the masked fields into a fresh document when there is none.
StoreUpdate(docs, key, mask, obj) ==
    IF docs[key] # None
    THEN [docs EXCEPT ![key] = Some(ApplyMask(docs[key][1], mask, obj))]
    ELSE [docs EXCEPT ![key] = Some(ApplyMask(DefaultTask, mask, obj))]

\* fluent().insert().into("tasks").document_id(id).parent(p).object(obj):
\* the store creates the document, and refuses when the id is taken.
StoreInsertAllowed(docs, key) == docs[key] = None
StoreInsert(docs, key, obj) == [docs EXCEPT ![key] = Some(obj)]

\* does_user_exist(&firestore_client, &user_id): a lookup by id in "users"
DoesUserExist(u) == u \in users

\* does_task_exist(&firestore_client, &task_id, &parent_path)
DoesTaskExist(t, parent) == tasks[DocKey(parent, t)] # None

\* emit_event(&pubsub_client, "TaskCreatedEvent", payload): the published message
TaskCreatedEvent(task) == [topic |-> "TaskCreatedEvent", task |-> task]

(* ------------------------------ requests ------------------------------- *)

\* A request: its inputs, its place in the handler (pc), its locals (parent,
\* task), the collaborator calls it made (calls), the requests that had
\* answered when it arrived (after) and its answer (code, error, task).
Idle ==
    [kind |-> "idle", pc |-> "idle", user_id |-> "", task_id |-> "",
     object_path |-> "", task_data |-> None, status |-> "", result |-> None,
     parent |-> None, task |-> None, calls |-> <<>>, after |-> {},
     code |-> 0, error |-> ""]

\* a collaborator call as a request's record keeps it: the operation and its
\* outcome ("err" is a failure to reach the collaborator, "exists" the store's
\* refusal to create over a taken id)
Call(op, res) == [op |-> op, res |-> res]

Started(i) == req[i].kind # "idle"
Finished(i) == req[i].pc = "done"

\* the next free slot: requests take the slots in order
FreeSlot(i) == req[i].kind = "idle" /\ \A j \in Slots : j < i => Started(j)

\* request r returns Err((code, Json(error))): its locals are dropped
Fail(r, c, e) ==
    [r EXCEPT !.pc = "done", !.code = c, !.error = e, !.task = None, !.parent = None]

\* request r returns Ok((code, Json(body)))
Succeed(r, c, body) ==
    [r EXCEPT !.pc = "done", !.code = c, !.task = Some(body), !.parent = None]

\* does_user_exist(..).await? and does_task_exist(..).await?: the error of a
\* lookup that could not reach the store is returned as it is, a service failure
LookupError(r) == Fail(r, 500, "store")

Logged(r, op, res) == [r EXCEPT !.calls = Append(@, Call(op, res))]

\* The store at the start: a fresh one with user u1 and no task, or one the
\* service left behind, with users u1 and u2 and the task t1 of u1 as create_task
\* inserts it.
StoredTask(u, t) ==
    [DefaultTask EXCEPT
       !.task_id = t, !.data = Some(DefaultTaskData), !.object_path = "gs://x",
       !.created_by = u, !.status = "Queued",
       !.created_at = Some(0), !.updated_at = Some(0)]

InitTasks ==
    {[k \in Keys |-> IF k = DocKey(ParentPath("u1"), "t1")
                     THEN Some(StoredTask("u1", "t1")) ELSE None]}

Init ==
    /\ \/ users = {"u1"} /\ tasks = [k \in Keys |-> None]
       \/ users = {"u1", "u2"} /\ tasks \in InitTasks
    /\ origin = tasks
    /\ bus = <<>>
    /\ now = 0
    /\ req = [i \in Slots |-> Idle]

(* ------------------------------ create_task ---------------------------- *)

\* faulty variant: a missing user does not stop the request
CreateAfterUserCheck_Skip(r, found) == [r EXCEPT !.pc = "c_path"]

\* what create_task does with the answer of does_user_exist
CreateAfterUserCheck(r, found) ==
    IF found THEN [r EXCEPT !.pc = "c_path"]
    ELSE Fail(r, 404, "User not found")

\* faulty variant: the tasks of every user go under one parent path
CreateAfterParentPath_Shared(r, ok) ==
    IF ok THEN [r EXCEPT !.parent = Some(ParentPath("u1")), !.pc = "c_task"]
    ELSE Fail(r, 500, "Failed to get parent path")

\* what create_task does with the answer of parent_path
CreateAfterParentPath(r, ok) ==
    IF ok THEN [r EXCEPT !.parent = Some(ParentPath(r.user_id)), !.pc = "c_task"]
    ELSE Fail(r, 500, "Failed to get parent path")

\* A request arrives, Json(params): Json<CreateTaskCommand>, and runs to the
\* await of does_task_exist or to its return.
CreateCheckUser(i) ==
    /\ FreeSlot(i)
    /\ \E u \in UserIds, t \in TaskIds, p \in ObjectPaths, d \in TaskDataInputs :
         LET r == [Idle EXCEPT !.kind = "create_task", !.user_id = u, !.task_id = t,
                               !.object_path = p, !.task_data = d,
                               !.after = {j \in Slots : Finished(j)}]
             found == DoesUserExist(u) IN
         \/ req' = [req EXCEPT ![i] = LookupError(Logged(r, "user_exists", "err"))]
         \/ /\ ~found
            /\ req' = [req EXCEPT ![i] =
                         CreateAfterUserCheck(Logged(r, "user_exists", "false"), FALSE)]
         \/ /\ found
            /\ \E ok \in BOOLEAN :
                 req' = [req EXCEPT ![i] =
                           LET r1 == CreateAfterUserCheck(Logged(r, "user_exists", "true"), TRUE)
                           IN  CreateAfterParentPath(
                                 Logged(r1, "parent_path", IF ok THEN "ok" ELSE "err"), ok)]
    /\ UNCHANGED <<users, tasks, bus, now, origin>>

\* faulty variant: created_by is left to Task::default()
NewTask_NoOwner(r, t1, t2) ==
    [DefaultTask EXCEPT
       !.task_id = r.task_id,
       !.data = Some(IF r.task_data = None THEN DefaultTaskData ELSE r.task_data[1]),
       !.object_path = r.object_path,
       !.status = "Queued",
       !.created_at = Some(t1),
       !.updated_at = Some(t2)]

\* the Task create_task builds; the clock is read once for each timestamp
NewTask(r, t1, t2) ==
    [DefaultTask EXCEPT
       !.task_id = r.task_id,
       !.data = Some(IF r.task_data = None THEN DefaultTaskData ELSE r.task_data[1]),
       !.object_path = r.object_path,
       !.created_by = r.user_id,
       !.status = "Queued",
       !.created_at = Some(t1),
       !.updated_at = Some(t2)]

\* faulty variant: the existence check no longer stops the request
CreateAfterTaskCheck_NoConflict(r, found, t1, t2) ==
    [r EXCEPT !.task = Some(NewTask(r, t1, t2)), !.pc = "c_insert"]

\* what create_task does with the answer of does_task_exist
CreateAfterTaskCheck(r, found, t1, t2) ==
    IF found THEN Fail(r, 409, "Task already exists")
    ELSE [r EXCEPT !.task = Some(NewTask(r, t1, t2)), !.pc = "c_insert"]

CreateCheckTask(i) ==
    LET r == req[i]
        found == DoesTaskExist(r.task_id, r.parent[1]) IN
    /\ r.pc = "c_task"
    /\ \/ /\ req' = [req EXCEPT ![i] = LookupError(Logged(r, "task_exists", "err"))]
          /\ now' = now
       \/ /\ found
          /\ req' = [req EXCEPT ![i] =
                       CreateAfterTaskCheck(Logged(r, "task_exists", "true"), TRUE, now, now)]
          /\ now' = now
       \/ /\ ~found
          /\ \E t1 \in now..MaxTime : \E t2 \in t1..MaxTime :
               /\ req' = [req EXCEPT ![i] =
                            CreateAfterTaskCheck(Logged(r, "task_exists", "false"), FALSE, t1, t2)]
               /\ now' = t2
    /\ UNCHANGED <<users, tasks, bus, origin>>

\* faulty variant: the insert's error is logged and the request goes on
CreateAfterInsert_Ignore(r, ok) == [r EXCEPT !.pc = "c_publish"]

\* what create_task does when the insert returned Ok or Err
CreateAfterInsert(r, ok) ==
    IF ok THEN [r EXCEPT !.pc = "c_publish"]
    ELSE Fail(r, 500, "Failed to create task")

\* faulty variant: the write is a set, which the store accepts over an existing document
CreateInsertAccepted_Upsert(docs, key) == TRUE

\* whether the insert of create_task goes through at the store: fluent().insert()
\* creates, and the store refuses to create over an existing document
CreateInsertAccepted(docs, key) == StoreInsertAllowed(docs, key)

CreateInsert(i) ==
    LET r == req[i]
        key == DocKey(r.parent[1], r.task_id) IN
    /\ r.pc = "c_insert"
    /\ \/ /\ req' = [req EXCEPT ![i] = CreateAfterInsert(Logged(r, "insert", "err"), FALSE)]
          /\ UNCHANGED <<tasks, origin>>
       \/ /\ ~CreateInsertAccepted(tasks, key)
          /\ req' = [req EXCEPT ![i] = CreateAfterInsert(Logged(r, "insert", "exists"), FALSE)]
          /\ UNCHANGED <<tasks, origin>>
       \/ /\ CreateInsertAccepted(tasks, key)
          /\ req' = [req EXCEPT ![i] = CreateAfterInsert(Logged(r, "insert", "ok"), TRUE)]
          /\ tasks' = StoreInsert(tasks, key, r.task[1])
          /\ origin' = [origin EXCEPT ![key] = tasks'[key]]
    /\ UNCHANGED <<users, bus, now>>

\* faulty variant: the publish error is swallowed
CreateAfterPublish_Swallow(r, ok) == Succeed(r, 201, r.task[1])

\* what create_task does when emit_event returned Ok or Err
CreateAfterPublish(r, ok) ==
    IF ok THEN Succeed(r, 201, r.task[1])
    ELSE Fail(r, 500, "publish")

CreatePublish(i) ==
    LET r == req[i] IN
    /\ r.pc = "c_publish"
    /\ \/ /\ req' = [req EXCEPT ![i] = CreateAfterPublish(Logged(r, "publish", "err"), FALSE)]
          /\ bus' = bus
       \/ /\ req' = [req EXCEPT ![i] = CreateAfterPublish(Logged(r, "publish", "ok"), TRUE)]
          /\ bus' = Append(bus, TaskCreatedEvent(r.task[1]))
    /\ UNCHANGED <<users, tasks, now, origin>>

(* ------------------------------ task_complete -------------------------- *)

\* faulty variant: the status is not validated
CompleteAfterStatusCheck_Accept(r, ok) == [r EXCEPT !.pc = "t_user"]

\* what task_complete does with the answer of TaskStatus::try_from
CompleteAfterStatusCheck(r, ok) ==
    IF ok THEN [r EXCEPT !.pc = "t_user"]
    ELSE Fail(r, 400, "Invalid task status")

\* faulty variant: a missing user does not stop the request
CompleteAfterUserCheck_Skip(r, found) == [r EXCEPT !.pc = "t_path"]

\* what task_complete does with the answer of does_user_exist
CompleteAfterUserCheck(r, found) ==
    IF found THEN [r EXCEPT !.pc = "t_path"]
    ELSE Fail(r, 404, "User not found")

\* what task_complete does with the answer of parent_path
CompleteAfterParentPath(r, ok) ==
    IF ok THEN [r EXCEPT !.parent = Some(ParentPath(r.user_id)), !.pc = "t_get"]
    ELSE Fail(r, 500, "Failed to get parent path")

\* A request arrives, Json(task_completion_event): Json<TaskCompletedEvent>,
\* and runs to the await of the task read or to its return.
CompleteCheckUser(i) ==
    /\ FreeSlot(i)
    /\ \E u \in UserIds, t \in TaskIds, c \in Completions :
         LET st == c[1]
             res == c[2]
             r0 == [Idle EXCEPT !.kind = "task_complete", !.user_id = u, !.task_id = t,
                                !.status = st, !.result = Some(res),
                                !.after = {j \in Slots : Finished(j)}]
             valid == TaskStatusTryFrom(st)
             r == CompleteAfterStatusCheck(r0, valid)
             found == DoesUserExist(u) IN
         \/ /\ r.pc = "done"
            /\ req' = [req EXCEPT ![i] = r]
         \/ /\ r.pc = "t_user"
            /\ req' = [req EXCEPT ![i] = LookupError(Logged(r, "user_exists", "err"))]
         \/ /\ r.pc = "t_user"
            /\ ~found
            /\ req' = [req EXCEPT ![i] =
                         CompleteAfterUserCheck(Logged(r, "user_exists", "false"), FALSE)]
         \/ /\ r.pc = "t_user"
            /\ found
            /\ \E ok \in BOOLEAN :
                 req' = [req EXCEPT ![i] =
                           LET r1 == CompleteAfterUserCheck(Logged(r, "user_exists", "true"), TRUE)
                           IN  CompleteAfterParentPath(
                                 Logged(r1, "parent_path", IF ok THEN "ok" ELSE "err"), ok)]
    /\ UNCHANGED <<users, tasks, bus, now, origin>>

\* faulty variant: the status written is the one read, not the one supplied
CompletionObject_StaleStatus(r, snapshot, t) ==
    [snapshot EXCEPT
       !.result = r.result,
       !.duration_seconds = 0,
       !.updated_at = Some(t),
       !.last_publish_time = None]

\* the object task_complete hands to the update: the request's fields over
\* the task it read, the clock read for updated_at
CompletionObject(r, snapshot, t) ==
    [snapshot EXCEPT
       !.status = r.status,
       !.result = r.result,
       !.duration_seconds = 0,
       !.updated_at = Some(t),
       !.last_publish_time = None]

\* faulty variant: a task that is not there does not stop the request
CompleteAfterGet_NoCheck(r, doc, t) ==
    [r EXCEPT !.task = Some(CompletionObject(r, IF doc = None THEN DefaultTask ELSE doc[1], t)),
              !.pc = "t_update"]

\* what task_complete does with the answer of the task read
CompleteAfterGet(r, doc, t) ==
    IF doc = None THEN Fail(r, 404, "Failed to find task")
    ELSE [r EXCEPT !.task = Some(CompletionObject(r, doc[1], t)), !.pc = "t_update"]

\* faulty variant: a read that failed is taken for a task that is not there
CompleteGet_ErrorAsNone(i) ==
    LET r == req[i]
        doc == tasks[DocKey(r.parent[1], r.task_id)] IN
    /\ r.pc = "t_get"
    /\ \/ /\ req' = [req EXCEPT ![i] = CompleteAfterGet(Logged(r, "get", "err"), None, now)]
          /\ now' = now
       \/ /\ doc = None
          /\ req' = [req EXCEPT ![i] = CompleteAfterGet(Logged(r, "get", "none"), doc, now)]
          /\ now' = now
       \/ /\ doc # None
          /\ \E t \in now..MaxTime :
               /\ req' = [req EXCEPT ![i] = CompleteAfterGet(Logged(r, "get", "some"), doc, t)]
               /\ now' = t
    /\ UNCHANGED <<users, tasks, bus, origin>>

CompleteGet(i) ==
    LET r == req[i]
        doc == tasks[DocKey(r.parent[1], r.task_id)] IN
    /\ r.pc = "t_get"
    /\ \/ /\ req' = [req EXCEPT ![i] = Fail(Logged(r, "get", "err"), 500, "Failed to get task")]
          /\ now' = now
       \/ /\ doc = None
          /\ req' = [req EXCEPT ![i] = CompleteAfterGet(Logged(r, "get", "none"), doc, now)]
          /\ now' = now
       \/ /\ doc # None
          /\ \E t \in now..MaxTime :
               /\ req' = [req EXCEPT ![i] = CompleteAfterGet(Logged(r, "get", "some"), doc, t)]
               /\ now' = t
    /\ UNCHANGED <<users, tasks, bus, origin>>

\* faulty variant: task_complete announces the completion on the bus
CompleteUpdate_Publishes(i) ==
    LET r == req[i]
        key == DocKey(r.parent[1], r.task_id) IN
    /\ r.pc = "t_update"
    /\ tasks' = StoreUpdate(tasks, key, UpdateMask, r.task[1])
    /\ req' = [req EXCEPT ![i] = Succeed(Logged(r, "update", "ok"), 200, tasks'[key][1])]
    /\ bus' = Append(bus, [topic |-> "TaskCompletedEvent", task |-> tasks'[key][1]])
    /\ UNCHANGED <<users, now, origin>>

\* faulty variant: the update leaves the result field out of its mask
CompleteWrite_Partial(docs, key, obj) == StoreUpdate(docs, key, UpdateMask \ {"result"}, obj)

\* the store after the update task_complete issues
CompleteWrite(docs, key, obj) == StoreUpdate(docs, key, UpdateMask, obj)

CompleteUpdate(i) ==
    LET r == req[i]
        key == DocKey(r.parent[1], r.task_id) IN
    /\ r.pc = "t_update"
    /\ \/ /\ req' = [req EXCEPT ![i] =
                       Fail(Logged(r, "update", "err"), 500, "Failed to update task")]
          /\ tasks' = tasks
       \/ /\ tasks' = CompleteWrite(tasks, key, r.task[1])
          /\ req' = [req EXCEPT ![i] = Succeed(Logged(r, "update", "ok"), 200, tasks'[key][1])]
    /\ UNCHANGED <<users, bus, now, origin>>

(* ------------------------------ create_user ---------------------------- *)

\* what create_user does with the answer of does_user_exist
\* faulty variant: the existence check no longer stops the request
UserAfterUserCheck_Skip(r, found) == [r EXCEPT !.pc = "u_insert"]

UserAfterUserCheck(r, found) ==
    IF found THEN Fail(r, 302, "User already exists")
    ELSE [r EXCEPT !.pc = "u_insert"]

\* UserCreatedEvent.user: Option<User>, absent or a user with its id
UserInputs == {None} \cup {Some(u) : u \in UserIds}

\* params.user.unwrap() on None: the handler panics; it makes no call and
\* returns nothing, and no later step of the request exists
UserUnwrapPanic(r) == [r EXCEPT !.pc = "panicked"]

\* A request arrives, Json(params): Json<UserCreatedEvent>, and runs to the
\* await of the insert, to its return or to the panic of the unwrap.
UserCheckUser(i) ==
    /\ FreeSlot(i)
    /\ \E user \in UserInputs :
         LET r0 == [Idle EXCEPT !.kind = "create_user",
                                !.after = {j \in Slots : Finished(j)}] IN
         \/ /\ user = None
            /\ req' = [req EXCEPT ![i] = UserUnwrapPanic(r0)]
         \/ /\ user # None
            /\ LET r == [r0 EXCEPT !.user_id = user[1]]
                   found == DoesUserExist(user[1]) IN
               \/ req' = [req EXCEPT ![i] = LookupError(Logged(r, "user_exists", "err"))]
               \/ req' = [req EXCEPT ![i] =
                            UserAfterUserCheck(
                              Logged(r, "user_exists", IF found THEN "true" ELSE "false"), found)]
    /\ UNCHANGED <<users, tasks, bus, now, origin>>

\* what create_user does when the insert returned Ok or Err
UserAfterInsert(r, ok) ==
    IF ok THEN [r EXCEPT !.pc = "done", !.code = 201]
    ELSE Fail(r, 500, "Failed to create user")

UserInsert(i) ==
    LET r == req[i] IN
    /\ r.pc = "u_insert"
    /\ \/ /\ req' = [req EXCEPT ![i] = UserAfterInsert(Logged(r, "insert", "err"), FALSE)]
          /\ users' = users
       \/ /\ r.user_id \in users
          /\ req' = [req EXCEPT ![i] = UserAfterInsert(Logged(r, "insert", "exists"), FALSE)]
          /\ users' = users
       \/ /\ r.user_id \notin users
          /\ req' = [req EXCEPT ![i] = UserAfterInsert(Logged(r, "insert", "ok"), TRUE)]
          /\ users' = users \cup {r.user_id}
    /\ UNCHANGED <<tasks, bus, now, origin>>

(* ------------------------------ the system ----------------------------- *)

Next ==
    \E i \in Slots :
       \/ CreateCheckUser(i)
       \/ CreateCheckTask(i)
       \/ CreateInsert(i)
       \/ CreatePublish(i)
       \/ CompleteCheckUser(i)
       \/ CompleteGet(i)
       \/ CompleteUpdate(i)
       \/ UserCheckUser(i)
       \/ UserInsert(i)

Spec == Init /\ [][Next]_vars

(* ------------------------------ reading a run -------------------------- *)

Creates == {i \in Slots : req[i].kind = "create_task"}
Completes == {i \in Slots : req[i].kind = "task_complete"}

\* the document place a request names
KeyOf(r) == DocKey(ParentPath(r.user_id), r.task_id)

Has(r, op, res) == \E k \in 1..Len(r.calls) : r.calls[k] = Call(op, res)
Called(r, op) == \E k \in 1..Len(r.calls) : r.calls[k].op = op
Ops(r) == [k \in 1..Len(r.calls) |-> r.calls[k].op]
IsPrefix(s, t) == Len(s) <= Len(t) /\ \A k \in 1..Len(s) : s[k] = t[k]

\* no store call of r failed and its parent scope resolved (its publish may have failed)
StoreOk(r) == \A k \in 1..Len(r.calls) : r.calls[k].res = "err" => r.calls[k].op = "publish"

Inserted(i) == i \in Creates /\ Has(req[i], "insert", "ok")

\* the events on the bus that carry the task of key k
EventsOf(k) ==
    {n \in 1..Len(bus) : DocKey(ParentPath(bus[n].task.created_by), bus[n].task.task_id) = k}

(* ------------------------------ C1 ------------------------------------- *)

\* C1: when two create_task calls with the same (user_id, task_id) run one
\* after the other, the user existing and the store calls succeeding (the
\* publish may fail), the second returns 409 having neither inserted nor
\* published, the task is stored, and no more than one insert of that key
\* ever succeeded.
C1_SecondCreateConflicts ==
    \A i \in Creates, j \in Creates :
       ( /\ i \in req[j].after
         /\ KeyOf(req[i]) = KeyOf(req[j])
         /\ Has(req[i], "user_exists", "true")
         /\ StoreOk(req[i]) /\ StoreOk(req[j])
         /\ Finished(j) )
       => /\ req[j].code = 409
          /\ ~Called(req[j], "insert") /\ ~Called(req[j], "publish")
          /\ tasks[KeyOf(req[j])] # None
          /\ Cardinality({k \in Creates : KeyOf(req[k]) = KeyOf(req[j]) /\ Inserted(k)}) <= 1

\* the first call stored the task and failed to publish, the second got 409
C1_Witness ==
    \E i \in Creates, j \in Creates :
       /\ i \in req[j].after
       /\ KeyOf(req[i]) = KeyOf(req[j])
       /\ Inserted(i) /\ Has(req[i], "publish", "err")
       /\ StoreOk(req[j])
       /\ req[j].code = 409

(* ------------------------------ C2 ------------------------------------- *)

\* the create_task requests for key k that found the user
CreatorsOf(k) ==
    {i \in Creates : KeyOf(req[i]) = k /\ Has(req[i], "user_exists", "true")}

\* C2: among the create_task requests of one (user_id, task_id) whose user
\* exists, however they interleave, at most one insert succeeds, at most one
\* returns 201, at most one TaskCreatedEvent of the key is published, and every
\* finished request other than the one whose insert succeeded returned 409 or 500.
C2_OneCreatorWins ==
    \A k \in Keys :
       /\ Cardinality({i \in CreatorsOf(k) : Inserted(i)}) <= 1
       /\ Cardinality({i \in CreatorsOf(k) : req[i].code = 201}) <= 1
       /\ Cardinality(EventsOf(k)) <= 1
       /\ \A i \in CreatorsOf(k) :
             Finished(i) /\ ~Inserted(i) => req[i].code \in {409, 500}

\* two racing creators both passed the existence check; one inserted and
\* returned 201, the other's insert was refused and it returned 500
C2_Witness ==
    \E i \in Creates, j \in Creates :
       /\ i # j /\ KeyOf(req[i]) = KeyOf(req[j])
       /\ Has(req[i], "task_exists", "false") /\ Has(req[j], "task_exists", "false")
       /\ req[i].code = 201
       /\ Has(req[j], "insert", "exists") /\ req[j].code = 500

(* ------------------------------ C3 ------------------------------------- *)

Last(q) == q[Len(q)]

\* the request of slot i takes this step
Steps(i) == req'[i] # req[i]

\* a request that has answered takes no further step
FinishedStay == \A i \in Slots : Finished(i) => req'[i] = req[i]

\* C3: a create_task request invokes publish only in the step that follows its
\* own successful insert, the task then being in the store; a request whose
\* insert fails answers 500 in that step, stores nothing, publishes nothing
\* and takes no further step; every event on the bus carries a stored task.
C3_PublishAfterPersist ==
    [][ /\ FinishedStay
        /\ \A i \in Slots :
             (Steps(i) /\ req'[i].kind = "create_task") =>
                LET r == req[i]
                    r2 == req'[i] IN
                /\ (Called(r2, "publish") /\ ~Called(r, "publish")) =>
                      /\ Len(r.calls) > 0 /\ Last(r.calls) = Call("insert", "ok")
                      /\ tasks[KeyOf(r2)] # None
                /\ (Called(r2, "insert") /\ ~Called(r, "insert") /\ ~Has(r2, "insert", "ok")) =>
                      /\ r2.pc = "done" /\ r2.code = 500
                      /\ ~Called(r2, "publish")
                      /\ tasks' = tasks /\ bus' = bus
        /\ \A n \in 1..Len(bus') :
             tasks'[DocKey(ParentPath(bus'[n].task.created_by), bus'[n].task.task_id)] # None
      ]_vars

\* one request's insert failed and it answered 500; another stored and
\* published the task, the only event on the bus
C3_Witness ==
    \E i \in Creates, j \in Creates :
       /\ Has(req[i], "insert", "err") /\ req[i].code = 500
       /\ Has(req[j], "publish", "ok")
       /\ Len(bus) = 1 /\ tasks[KeyOf(req[j])] # None

(* ------------------------------ C4 ------------------------------------- *)

\* the place of a status in Queued -> Running -> {Completed, Failed}
StatusRank(st) ==
    CASE st = "Queued" -> 0
      [] st = "Running" -> 1
      [] OTHER -> 2

\* C4 as stated: no step stores a status earlier than the stored one.
C4_StatusNeverRegresses ==
    [][ \A k \in Keys :
          (tasks[k] # None /\ tasks'[k] # None) =>
             StatusRank(tasks'[k][1].status) >= StatusRank(tasks[k][1].status) ]_vars

\* C4 amended: a task is stored as Queued by the insert of create_task, and its
\* stored status changes only in the update of a task_complete request, which
\* stores the status of that request, a member of the known enum, whatever the
\* status stored before.
C4_StatusSetByCompletion ==
    [][ \A k \in Keys :
          /\ (tasks[k] = None /\ tasks'[k] # None) => tasks'[k][1].status = "Queued"
          /\ (tasks[k] # None /\ tasks'[k] # tasks[k]) =>
                \E i \in Slots :
                   /\ req[i].kind = "task_complete" /\ req[i].pc = "t_update"
                   /\ Steps(i) /\ KeyOf(req[i]) = k
                   /\ tasks'[k] # None
                   /\ tasks'[k][1].status = req[i].status
                   /\ req[i].status \in KnownStatus ]_vars

\* a completion with Completed answered 200, a later one with Running answered
\* 200, and the task is stored as Running
C4_Witness ==
    \E i \in Completes, j \in Completes :
       /\ i \in req[j].after /\ KeyOf(req[i]) = KeyOf(req[j])
       /\ req[i].code = 200 /\ req[i].status = "Completed"
       /\ req[j].code = 200 /\ req[j].status = "Running"
       /\ tasks[KeyOf(req[j])][1].status = "Running"

(* ------------------------------ C5 ------------------------------------- *)

Unmasked == {"task_id", "data", "object_path", "created_by", "created_at"}

\* C5: the step in which a task_complete request's update succeeds leaves the
\* document with task_id, data, object_path, created_by and created_at as they
\* were inserted (and as they were stored just before), status and result as
\* the request supplied them, duration_seconds 0, updated_at the time the
\* request read and last_publish_time unset.
C5_FieldMaskIsolation ==
    [][ \A i \in Slots :
          (req[i].pc = "t_update" /\ Steps(i) /\ req'[i].code = 200) =>
             LET k == KeyOf(req[i])
                 d == tasks'[k][1] IN
             /\ tasks[k] # None /\ origin[k] # None
             /\ \A f \in Unmasked : d[f] = origin[k][1][f] /\ d[f] = tasks[k][1][f]
             /\ d.status = req[i].status
             /\ d.result = req[i].result
             /\ d.duration_seconds = 0
             /\ d.updated_at = req[i].task[1].updated_at
             /\ d.updated_at # None /\ d.updated_at[1] <= now
             /\ d.last_publish_time = None
             /\ req'[i].task = Some(d) ]_vars

\* two completions of one task both read it before either wrote; both
\* answered 200 and the document holds the fields a request supplied
C5_Witness ==
    \E i \in Completes, j \in Completes :
       /\ i # j /\ KeyOf(req[i]) = KeyOf(req[j])
       /\ req[i].code = 200 /\ req[j].code = 200
       /\ i \notin req[j].after /\ j \notin req[i].after
       /\ req[i].status # req[j].status
       /\ tasks[KeyOf(req[i])][1].status = req[i].status
       /\ tasks[KeyOf(req[i])][1].result = req[i].result

(* ------------------------------ C6 ------------------------------------- *)

\* C6: a task_complete request whose status is not a member of the known
\* enum answers 400 in its first step, having called neither the store nor
\* the bus, and that step leaves the store and the bus as they were.
C6_InvalidStatusRejected ==
    [][ \A i \in Slots :
          (Steps(i) /\ req'[i].kind = "task_complete" /\ req'[i].status \notin KnownStatus) =>
             /\ req[i].kind = "idle"
             /\ req'[i].pc = "done" /\ req'[i].code = 400
             /\ req'[i].calls = <<>>
             /\ UNCHANGED <<users, tasks, bus>> ]_vars

\* a completion with status BOGUS for a stored task answered 400 and the task
\* is as it was inserted
C6_Witness ==
    \E i \in Completes :
       /\ req[i].status = "BOGUS" /\ req[i].code = 400
       /\ tasks[KeyOf(req[i])] # None
       /\ tasks[KeyOf(req[i])] = origin[KeyOf(req[i])]

(* ------------------------------ C7 ------------------------------------- *)

\* C7: a create_task request whose insert succeeded and whose publish failed
\* has answered 500, its last call is the failed publish (no delete, no
\* second write), and the task it inserted is in the store.
C7_PublishFailureKeepsTask ==
    \A i \in Creates :
       Has(req[i], "publish", "err") =>
          /\ Finished(i) /\ req[i].code = 500
          /\ Ops(req[i]) = <<"user_exists", "parent_path", "task_exists", "insert", "publish">>
          /\ Has(req[i], "insert", "ok")
          /\ tasks[KeyOf(req[i])] # None
          /\ \A f \in Unmasked : tasks[KeyOf(req[i])][1][f] = origin[KeyOf(req[i])][1][f]

\* the publish failed, the request answered 500 and the task is stored as inserted
C7_Witness ==
    \E i \in Creates :
       /\ Has(req[i], "publish", "err") /\ req[i].code = 500
       /\ tasks[KeyOf(req[i])] # None
       /\ tasks[KeyOf(req[i])] = origin[KeyOf(req[i])]
       /\ bus = <<>>

(* ------------------------------ C8 ------------------------------------- *)

\* C8: create_task calls user lookup, scope resolution, task lookup, insert,
\* publish in that order; a user lookup answering false ends it with 404 and
\* one call made, a task lookup answering true ends it with 409 and three
\* calls made; both without insert or publish.
C8_CreatePreconditionOrder ==
    \A i \in Creates :
       LET r == req[i] IN
       /\ IsPrefix(Ops(r), <<"user_exists", "parent_path", "task_exists", "insert", "publish">>)
       /\ Has(r, "user_exists", "false") =>
             /\ Finished(i) /\ r.code = 404 /\ Len(r.calls) = 1
       /\ Has(r, "task_exists", "true") =>
             /\ Finished(i) /\ r.code = 409 /\ Len(r.calls) = 3
             /\ Has(r, "user_exists", "true") /\ Has(r, "parent_path", "ok")
       /\ Called(r, "task_exists") => Has(r, "user_exists", "true") /\ Has(r, "parent_path", "ok")
       /\ Called(r, "insert") => Has(r, "task_exists", "false")
       /\ r.code \in {404, 409} => ~Called(r, "insert") /\ ~Called(r, "publish")

\* a create for a missing user answered 404 while the task id exists under
\* another user, untouched
C8_Witness ==
    \E i \in Creates :
       /\ req[i].code = 404 /\ req[i].user_id \notin users
       /\ \E k \in Keys : k[2] = req[i].task_id /\ tasks[k] # None /\ tasks[k] = origin[k]

(* ------------------------------ C9 ------------------------------------- *)

\* C9: task_complete checks the status before any call, then calls user
\* lookup, scope resolution, task read, update in that order: an unknown
\* status ends it with 400 and no call made, a user lookup answering false
\* with 404 and no task read, and the update is issued only after the user
\* was found, the scope resolved and the task read.
C9_CompletePreconditionOrder ==
    \A i \in Completes :
       LET r == req[i] IN
       /\ IsPrefix(Ops(r), <<"user_exists", "parent_path", "get", "update">>)
       /\ r.status \notin KnownStatus => r.code = 400 /\ r.calls = <<>>
       /\ Has(r, "user_exists", "false") =>
             /\ Finished(i) /\ r.code = 404 /\ Len(r.calls) = 1
       /\ Called(r, "get") => Has(r, "user_exists", "true") /\ Has(r, "parent_path", "ok")
       /\ (Called(r, "update") \/ r.pc = "t_update") =>
             /\ r.status \in KnownStatus
             /\ Has(r, "user_exists", "true") /\ Has(r, "parent_path", "ok")
             /\ Has(r, "get", "some")

\* a completion with an unknown status for a missing user answered 400
C9_Witness ==
    \E i \in Completes :
       /\ req[i].status = "BOGUS" /\ req[i].user_id \notin users
       /\ req[i].code = 400

(* ------------------------------ C10 ------------------------------------ *)

StoredKeys == {k \in Keys : tasks[k] # None}

\* C10: no step of a task_complete request changes the set of stored task
\* keys, and a task read that finds nothing ends the request with 404 and no
\* update.
C10_CompleteCreatesNothing ==
    [][ \A i \in Slots :
          (Steps(i) /\ req'[i].kind = "task_complete") =>
             /\ StoredKeys' = StoredKeys
             /\ Has(req'[i], "get", "none") =>
                   /\ req'[i].pc = "done" /\ req'[i].code = 404
                   /\ ~Called(req'[i], "update") ]_vars

\* a completion of a task never created under an existing user answered 404
\* and the store holds no such task
C10_Witness ==
    \E i \in Completes :
       /\ req[i].code = 404 /\ Has(req[i], "get", "none")
       /\ req[i].user_id \in users
       /\ origin[KeyOf(req[i])] = None /\ tasks[KeyOf(req[i])] = None

(* ------------------------------ C11 ------------------------------------ *)

\* C11: no step of a task_complete request changes the bus; every message on
\* the bus is a TaskCreatedEvent, and the bus never holds more messages than
\* create_task requests have inserted tasks.
C11_CompleteNeverPublishes ==
    [][ /\ \A i \in Slots : (Steps(i) /\ req'[i].kind = "task_complete") => bus' = bus
        /\ \A n \in 1..Len(bus') : bus'[n].topic = "TaskCreatedEvent"
        /\ Len(bus') <= Cardinality({i \in Slots : /\ req'[i].kind = "create_task"
                                                   /\ Has(req'[i], "insert", "ok")})
      ]_vars

\* a task was created and announced, then completed: the bus holds the one
\* TaskCreatedEvent
C11_Witness ==
    \E i \in Creates, j \in Completes :
       /\ req[i].code = 201 /\ req[j].code = 200
       /\ KeyOf(req[i]) = KeyOf(req[j])
       /\ Len(bus) = 1 /\ bus[1].topic = "TaskCreatedEvent"

(* ------------------------------ C12 ------------------------------------ *)

\* the stored documents of the tasks of user u
DocsOf(u) == {k \in Keys : tasks[k] # None /\ tasks[k][1].created_by = u}

\* C12: a create_task request answers 409 only when the task id is stored under
\* its own user; the insert of a create_task and every step of a
\* task_complete leave the documents of every other user as they were.
C12_TaskIdsPerUser ==
    [][ \A i \in Slots :
          Steps(i) =>
             LET r2 == req'[i] IN
             /\ (r2.kind = "create_task" /\ r2.code = 409) =>
                   \E k \in DocsOf(r2.user_id) : tasks[k][1].task_id = r2.task_id
             /\ r2.kind \in {"create_task", "task_complete"} =>
                   \A u \in UserIds \ {r2.user_id} :
                      /\ DocsOf(u)' = DocsOf(u)
                      /\ \A k \in DocsOf(u) : tasks'[k] = tasks[k]
      ]_vars

\* t1 is stored under u1 and under u2; a completion of (u1, t1) answered 200
\* and (u2, t1) is as it was inserted
C12_Witness ==
    \E i \in Creates, j \in Completes :
       /\ req[i].user_id = "u2" /\ req[i].task_id = "t1" /\ Inserted(i)
       /\ req[j].user_id = "u1" /\ req[j].task_id = "t1" /\ req[j].code = 200
       /\ tasks[KeyOf(req[j])] # None /\ tasks[KeyOf(req[j])][1].status = req[j].status
       /\ tasks[KeyOf(req[i])] # None /\ tasks[KeyOf(req[i])] = origin[KeyOf(req[i])]

(* ------------------------------ C13 ------------------------------------ *)

\* C13: a request whose user lookup, task lookup or task read could not reach
\* the store has answered 500 (not 404, not 409), the failed lookup being its
\* last call: no insert, publish or update follows it.
C13_LookupFailureIsServiceFailure ==
    \A i \in Creates \cup Completes :
       LET r == req[i] IN
       \A op \in {"user_exists", "task_exists", "get"} :
          Has(r, op, "err") =>
             /\ Finished(i) /\ r.code = 500
             /\ Last(r.calls) = Call(op, "err")
             /\ ~Called(r, "insert") /\ ~Called(r, "publish") /\ ~Called(r, "update")

\* the read of a stored task failed: the completion answered 500 and the task
\* is as it was inserted
C13_Witness ==
    \E i \in Completes :
       /\ Has(req[i], "get", "err") /\ req[i].code = 500
       /\ tasks[KeyOf(req[i])] # None
       /\ tasks[KeyOf(req[i])] = origin[KeyOf(req[i])]

(* ------------------------------ C14 ------------------------------------ *)

\* the task document as create_task request i inserted it
InsertedDoc(i) == origin[KeyOf(req[i])][1]

\* what an inserted document holds apart from how its two timestamps compare
InsertedFields(i) ==
    LET r == req[i]
        d == InsertedDoc(i) IN
    /\ d.status = "Queued"
    /\ d.created_by = r.user_id
    /\ d.task_id = r.task_id
    /\ d.object_path = r.object_path
    /\ d.data = Some(IF r.task_data = None THEN DefaultTaskData ELSE r.task_data[1])
    /\ d.created_at # None /\ d.updated_at # None
    /\ d.created_at[1] \in 0..now /\ d.updated_at[1] \in 0..now
    /\ d.result = None
    /\ d.duration_seconds = 0
    /\ d.last_publish_time = None
    /\ \A n \in EventsOf(KeyOf(r)) : bus[n].task = d
    /\ Has(r, "publish", "ok") => EventsOf(KeyOf(r)) # {}

\* C14: the document a create_task request inserted has status Queued,
\* created_by, task_id and object_path as requested, data as supplied or the
\* default, created_at equal to updated_at and both the time of the request,
\* no result, duration_seconds 0 and last_publish_time unset, and the event
\* the request published carries that document.
C14_InsertedTaskAsBuilt ==
    \A i \in Creates :
       Inserted(i) =>
          /\ InsertedFields(i)
          /\ InsertedDoc(i).created_at = InsertedDoc(i).updated_at

\* the same without the equality of the timestamps: created_at is no later
\* than updated_at
C14_InsertedTaskFields ==
    \A i \in Creates :
       Inserted(i) =>
          /\ InsertedFields(i)
          /\ InsertedDoc(i).created_at[1] <= InsertedDoc(i).updated_at[1]

\* a task was inserted and published whose updated_at is later than its created_at
C14_Witness ==
    \E i \in Creates :
       /\ Inserted(i) /\ req[i].code = 201
       /\ InsertedDoc(i).created_at[1] < InsertedDoc(i).updated_at[1]
       /\ \E n \in EventsOf(KeyOf(req[i])) : bus[n].task = InsertedDoc(i)

(* ------------------------------ C15 ------------------------------------ *)

UserCreates == {i \in Slots : req[i].kind = "create_user"}

\* C15: of the create_user requests for one user id no more than one inserted
\* the user document and no more than one answered 201; a create_user request
\* changes the store only by the insert that adds its own user, never the
\* tasks; and one that arrives when its user exists, its lookup reaching the
\* store, answers 302 in that step and changes nothing.
C15_UserCreatedOnce ==
    [][ /\ \A u \in UserIds :
             /\ Cardinality({i \in UserCreates : req[i].user_id = u /\ Has(req[i], "insert", "ok")}) <= 1
             /\ Cardinality({i \in UserCreates : req[i].user_id = u /\ req[i].code = 201}) <= 1
        /\ \A i \in Slots :
             (Steps(i) /\ req'[i].kind = "create_user") =>
                LET r2 == req'[i] IN
                /\ tasks' = tasks /\ origin' = origin /\ bus' = bus
                /\ users' # users =>
                      /\ r2.user_id \notin users /\ users' = users \cup {r2.user_id}
                      /\ Last(r2.calls) = Call("insert", "ok") /\ r2.code = 201
                /\ r2.code = 201 => Has(r2, "insert", "ok")
                /\ (~Started(i) /\ r2.user_id \in users /\ StoreOk(r2)) =>
                      /\ r2.code = 302 /\ r2.pc = "done"
                      /\ r2.calls = <<Call("user_exists", "true")>>
                      /\ users' = users
      ]_vars

\* two create_user requests for one user both found it missing: one inserted
\* it and answered 201, the store refused the other, which answered 500
C15_Witness ==
    \E i, j \in UserCreates :
       /\ i # j /\ req[i].user_id = req[j].user_id
       /\ req[i].code = 201
       /\ Has(req[j], "user_exists", "false") /\ Has(req[j], "insert", "exists")
       /\ req[j].code = 500
       /\ req[i].user_id \in users

(* ------------------------------ C16 ------------------------------------ *)

\* the fields of document d that task_complete writes
Written(d) == [f \in UpdateMask |-> d[f]]

\* the task_complete requests whose update of the document of key k went through
Updaters(k) == {i \in Completes : KeyOf(req[i]) = k /\ Has(req[i], "update", "ok")}

\* C16: the written fields of a stored task are together those it was
\* inserted with, or together those one task_complete request wrote: status
\* and result as that request supplied them, duration_seconds 0, updated_at the
\* time that request read, last_publish_time unset.
C16_UpdateIsOneWrite ==
    \A k \in StoredKeys :
       \/ Written(tasks[k][1]) = Written(origin[k][1])
       \/ \E i \in Updaters(k) :
             Written(tasks[k][1]) =
                [status |-> req[i].status, result |-> req[i].result,
                 duration_seconds |-> 0, updated_at |-> req[i].task[1].updated_at,
                 last_publish_time |-> None]

\* two completions of one task ran side by side and both wrote: the document
\* holds what the later writer supplied, none of it from the earlier one
C16_Witness ==
    \E i \in Completes, j \in Completes :
       /\ i # j /\ KeyOf(req[i]) = KeyOf(req[j])
       /\ {i, j} \subseteq Updaters(KeyOf(req[i]))
       /\ i \notin req[j].after /\ j \notin req[i].after
       /\ req[i].status # req[j].status /\ req[i].result # req[j].result
       /\ req[i].task[1].status = req[i].status
       /\ req[j].task[1].status = req[j].status
       /\ Written(tasks[KeyOf(req[j])][1]) = Written(req[j].task[1])

(* ------------------------------ C17 ------------------------------------ *)

\* the document stored under key k is a task of an existing user, named as its key
WellKeyed(docs, us, k) ==
    \E u \in us, t \in TaskIds :
       /\ k = DocKey(ParentPath(u), t)
       /\ docs[k][1].created_by = u
       /\ docs[k][1].task_id = t

\* C17: every stored task lies under an existing user, with created_by that
\* user's id and task_id its document id, before and after every step; no
\* step removes a user or a task, and none changes a stored task's created_by
\* or task_id.
C17_TasksStayUnderTheirUser ==
    [][ /\ \A k \in Keys : tasks[k] # None => WellKeyed(tasks, users, k)
        /\ \A k \in Keys : tasks'[k] # None => WellKeyed(tasks', users', k)
        /\ users \subseteq users'
        /\ \A k \in Keys :
             tasks[k] # None =>
                /\ tasks'[k] # None
                /\ tasks'[k][1].created_by = tasks[k][1].created_by
                /\ tasks'[k][1].task_id = tasks[k][1].task_id
      ]_vars

\* a create_user request added a user and a create_task request then stored
\* a task under that user
C17_Witness ==
    \E i \in UserCreates, j \in Creates :
       /\ req[i].code = 201 /\ req[i].user_id = req[j].user_id
       /\ Inserted(j)
       /\ tasks[KeyOf(req[j])] # None
       /\ tasks[KeyOf(req[j])][1].created_by = req[i].user_id
       /\ req[i].user_id \in users

(* ------------------------------ C18 ------------------------------------ *)

\* the create_task requests that stored their task and failed to publish it
Unpublished == {i \in Creates : Inserted(i) /\ Has(req[i], "publish", "err")}

\* C18: when a create_task request stored its task and its publish failed,
\* the task is stored and no event for it is on the bus; no other create_task
\* request for that task inserted or called publish, and one that arrived
\* after the first had answered, its store calls succeeding, answered 409. A
\* task lookup made while the task is stored answers true, and the request
\* answers 409 in that step, or fails to reach the store.
C18_RetryAfterLostEvent ==
    [][ /\ \A i \in Unpublished :
             /\ tasks[KeyOf(req[i])] # None
             /\ EventsOf(KeyOf(req[i])) = {}
             /\ \A j \in Creates \ {i} :
                   KeyOf(req[j]) = KeyOf(req[i]) =>
                      /\ ~Has(req[j], "insert", "ok") /\ ~Called(req[j], "publish")
                      /\ (i \in req[j].after /\ Finished(j) /\ StoreOk(req[j])) =>
                            req[j].code = 409
        /\ \A j \in Slots :
             ( /\ Steps(j) /\ req'[j].kind = "create_task"
               /\ Len(req'[j].calls) > Len(req[j].calls)
               /\ Last(req'[j].calls).op = "task_exists"
               /\ tasks[KeyOf(req'[j])] # None ) =>
                  /\ Last(req'[j].calls).res \in {"true", "err"}
                  /\ Last(req'[j].calls).res = "true" => req'[j].code = 409
                  /\ req'[j].pc = "done" /\ tasks' = tasks /\ bus' = bus
      ]_vars

\* a second request for the task arrived before the first had answered and
\* looked the task up after the first had stored it: it answered 409; the
\* first then failed to publish, and the task is stored with no event
C18_Witness ==
    \E i \in Unpublished, j \in Creates :
       /\ i # j /\ KeyOf(req[i]) = KeyOf(req[j])
       /\ i \notin req[j].after
       /\ Has(req[j], "task_exists", "true") /\ req[j].code = 409
       /\ req[i].code = 500
       /\ tasks[KeyOf(req[i])] # None
       /\ EventsOf(KeyOf(req[i])) = {}

(* ------------------------------ C19 ------------------------------------ *)

\* C19: a create_task request that answered 201 made its insert and its
\* publish, both succeeding; its task is stored, one event for that task is
\* on the bus and carries the document as inserted, and the body of the answer
\* is the document as the request inserted it.
C19_CreatedMeansStoredAndPublished ==
    \A i \in Creates :
       req[i].code = 201 =>
          LET k == KeyOf(req[i]) IN
          /\ Has(req[i], "insert", "ok") /\ Has(req[i], "publish", "ok")
          /\ tasks[k] # None
          /\ Cardinality(EventsOf(k)) = 1
          /\ \A n \in EventsOf(k) : bus[n].task = origin[k][1]
          /\ req[i].task = origin[k]

\* a create_task request answered 201 with the task as it inserted it, while
\* a completion that arrived before that answer has since written the task
C19_Witness ==
    \E i \in Creates, j \in Completes :
       /\ req[i].code = 201 /\ req[j].code = 200
       /\ KeyOf(req[i]) = KeyOf(req[j])
       /\ i \notin req[j].after
       /\ req[i].task = origin[KeyOf(req[i])]
       /\ tasks[KeyOf(req[i])] # origin[KeyOf(req[i])]
       /\ Cardinality(EventsOf(KeyOf(req[i]))) = 1

(* ------------------------------ C20 ------------------------------------ *)

\* a step of the started request of slot i: the return of the call it awaits
RequestStep(i) ==
    \/ CreateCheckTask(i)
    \/ CreateInsert(i)
    \/ CreatePublish(i)
    \/ CompleteGet(i)
    \/ CompleteUpdate(i)
    \/ UserInsert(i)

\* a call that failed is the last call of its request, which has answered
FailsAtFirstError(i) ==
    LET c == req[i].calls IN
    /\ \A k \in 1..Len(c) : c[k].res \in {"err", "exists"} => k = Len(c) /\ Finished(i)
    /\ Finished(i) => req[i].code # 0

\* C20: every started request has answered, once and for all, or has a step
\* to take when the call it awaits returns; a call that failed is the last
\* call of its request, and that request has answered.
C20_EveryRequestAnswers ==
    [][ /\ FinishedStay
        /\ \A i \in Slots :
             Started(i) =>
                /\ Finished(i) \/ ENABLED RequestStep(i)
                /\ FailsAtFirstError(i)
      ]_vars

\* the same for the requests that did not panic
C20_AnswersUnlessPanicked ==
    [][ /\ FinishedStay
        /\ \A i \in Slots :
             (Started(i) /\ req[i].pc # "panicked") =>
                /\ Finished(i) \/ ENABLED RequestStep(i)
                /\ FailsAtFirstError(i)
      ]_vars

\* a create_user request without a user panicked: it has made no call and has
\* no answer, and no step of it is left, while another request has answered
C20_Witness ==
    \E i \in UserCreates, j \in Slots :
       /\ req[i].pc = "panicked" /\ req[i].code = 0 /\ req[i].calls = <<>>
       /\ ~ENABLED RequestStep(i)
       /\ j # i /\ Finished(j)

\* every call returns: a started request that awaits a call takes its step
FairSpec == Spec /\ \A i \in Slots : WF_vars(RequestStep(i))

\* every started request that did not panic answers
C20_EventuallyAnswers ==
    \A i \in Slots : (Started(i) /\ req[i].pc # "panicked") ~> Finished(i)

====
